---- MODULE Spec2Model ----
(***************************************************************************)
(* ShoppyGlobe: the Redux store (cart slice, products slice) and the       *)
(* memoized selector selectFilteredProducts.                               *)
(*                                                                         *)
(* The store is  state = { cart, products } ; every reducer is a pure      *)
(* operator from (slice state, payload) to the next slice state, and every *)
(* action of the model is one dispatch.                                    *)
(***************************************************************************)
EXTENDS Integers, Sequences, FiniteSets, TLC

VARIABLES
  cart,       \* state.cart: [items, total]
  products,   \* state.products: the products slice
  view,       \* what useAppSelector(selectFilteredProducts) last delivered
  memo,       \* the cache of the memoized selector
  last,       \* history: the last dispatch
  route,      \* the route React Router renders: [path, productId]
  fetches,    \* the fetch calls whose promise has not settled yet
  detail,     \* useState of ProductDetail: [product, loading, error]
  checkout,   \* useState of Checkout: [isProcessing, orderPlaced]
  orders,     \* the payment timers that have not fired: [items, live]
  redirects,  \* the redirect timers that have not fired
  localSearch,    \* useState of Header: the text of the search input
  debounce,       \* useDebounce of useProducts: [value, pending]
  toasts,         \* memoryState.toasts of use-toast.js
  toastTimeouts,  \* the keys of the Map toastTimeouts
  timers,         \* the removal timers that have not fired, per toast id
  count           \* the counter of genId

vars == <<cart, products, view, memo, last, route, fetches, detail,
          checkout, orders, redirects, localSearch, debounce,
          toasts, toastTimeouts, timers, count>>

\* what the effects of useProducts and of ProductDetail own
fetchVars == <<route, fetches, detail>>

\* the state of Checkout, of the search input and of the toasts
checkoutVars == <<checkout, orders, redirects>>

searchVars == <<localSearch, debounce>>

toastVars == <<toasts, toastTimeouts, timers, count>>

uiVars == <<checkoutVars, searchVars, toastVars>>

----------------------------------------------------------------------------
(* Bounds of the model *)

MaxId == 2          \* product ids are 1..MaxId
MaxQty == 3         \* largest quantity an item is driven to
MaxProducts == 2    \* longest product collection handed to setProducts
MaxOrders == 1      \* payment timers, and redirect timers, pending at one time
MaxToasts == 3      \* toasts that toast() creates
MaxInFlight == 2    \* fetch calls that are unsettled at one time

Ids == 1..MaxId

\* quantities dispatched with updateQuantity: invalid (-1, 0) and valid ones
Quantities == (0 - 1)..MaxQty

\* what a product page hands to addToCart: (title, price, image)
Variants ==
  { [title |-> "Red Shoe", price |-> 20,    image |-> "shoe.png"],
    [title |-> "Blue Hat", price |-> 0 - 5, image |-> "hat.png"] }

Payloads ==
  { [id |-> i, title |-> v.title, price |-> v.price, image |-> v.image] :
      i \in Ids, v \in Variants }

----------------------------------------------------------------------------
(* Cart slice: src/src/lib/features/cart/cart-slice.js *)

cartInitialState == [items |-> <<>>, total |-> 0]

\* Array.prototype.find((item) => item.id === id), as the index of the first
\* match, 0 when there is none
FindItem(items, id) ==
  IF \E i \in 1..Len(items) : items[i].id = id
  THEN CHOOSE i \in 1..Len(items) :
         /\ items[i].id = id
         /\ \A j \in 1..(i - 1) : items[j].id # id
  ELSE 0

\* items.reduce((sum, item) => sum + item.price * item.quantity, 0)
RECURSIVE ReduceTotal(_, _)
ReduceTotal(items, sum) ==
  IF items = <<>> THEN sum
  ELSE ReduceTotal(Tail(items), sum + Head(items).price * Head(items).quantity)

\* items.filter((item) => item.id !== id)
RECURSIVE FilterOut(_, _)
FilterOut(items, id) ==
  IF items = <<>> THEN <<>>
  ELSE IF Head(items).id # id
       THEN <<Head(items)>> \o FilterOut(Tail(items), id)
       ELSE FilterOut(Tail(items), id)

\* mutants of addToCart: always pushes; overwrites the existing item with the
\* payload's fields
addToCart_AlwaysPush(state, payload) ==
  LET items2 == Append(state.items,
                       [id |-> payload.id, title |-> payload.title,
                        price |-> payload.price, image |-> payload.image,
                        quantity |-> 1])
  IN [items |-> items2, total |-> ReduceTotal(items2, 0)]

addToCart_Overwrite(state, payload) ==
  LET existingItem == FindItem(state.items, payload.id)
      items2 == IF existingItem # 0
                THEN [state.items EXCEPT
                        ![existingItem] =
                           [id |-> payload.id, title |-> payload.title,
                            price |-> payload.price, image |-> payload.image,
                            quantity |-> state.items[existingItem].quantity + 1]]
                ELSE Append(state.items,
                            [id |-> payload.id, title |-> payload.title,
                             price |-> payload.price, image |-> payload.image,
                             quantity |-> 1])
  IN [items |-> items2, total |-> ReduceTotal(items2, 0)]

addToCart(state, payload) ==
  LET existingItem == FindItem(state.items, payload.id)
      items2 == IF existingItem # 0
                THEN [state.items EXCEPT
                        ![existingItem].quantity = state.items[existingItem].quantity + 1]
                ELSE Append(state.items,
                            [id |-> payload.id, title |-> payload.title,
                             price |-> payload.price, image |-> payload.image,
                             quantity |-> 1])
  IN [items |-> items2, total |-> ReduceTotal(items2, 0)]

\* mutant of removeFromCart: takes the id for a position (splice(id - 1, 1))
removeFromCart_ByIndex(state, payload) ==
  LET items2 == IF payload \in 1..Len(state.items)
                THEN SubSeq(state.items, 1, payload - 1)
                       \o SubSeq(state.items, payload + 1, Len(state.items))
                ELSE state.items
  IN [items |-> items2, total |-> ReduceTotal(items2, 0)]

removeFromCart(state, payload) ==
  LET items2 == FilterOut(state.items, payload)
  IN [items |-> items2, total |-> ReduceTotal(items2, 0)]

\* mutants of updateQuantity: total not recomputed; quantity 0 accepted; a
\* quantity below 1 removes the item; an absent id creates an item
updateQuantity_StaleTotal(state, payload) ==
  LET item == FindItem(state.items, payload.id)
      items2 == IF item # 0 /\ payload.quantity >= 1
                THEN [state.items EXCEPT ![item].quantity = payload.quantity]
                ELSE state.items
  IN [items |-> items2, total |-> state.total]

updateQuantity_AcceptZero(state, payload) ==
  LET item == FindItem(state.items, payload.id)
      items2 == IF item # 0 /\ payload.quantity >= 0
                THEN [state.items EXCEPT ![item].quantity = payload.quantity]
                ELSE state.items
  IN [items |-> items2, total |-> ReduceTotal(items2, 0)]

updateQuantity_RemoveBelowOne(state, payload) ==
  LET item == FindItem(state.items, payload.id)
      items2 == IF item # 0 /\ payload.quantity >= 1
                THEN [state.items EXCEPT ![item].quantity = payload.quantity]
                ELSE IF item # 0
                     THEN FilterOut(state.items, payload.id)
                     ELSE state.items
  IN [items |-> items2, total |-> ReduceTotal(items2, 0)]

updateQuantity_Upsert(state, payload) ==
  LET item == FindItem(state.items, payload.id)
      items2 == IF payload.quantity >= 1
                THEN IF item # 0
                     THEN [state.items EXCEPT ![item].quantity = payload.quantity]
                     ELSE Append(state.items,
                                 [id |-> payload.id, title |-> "", price |-> 0,
                                  image |-> "", quantity |-> payload.quantity])
                ELSE state.items
  IN [items |-> items2, total |-> ReduceTotal(items2, 0)]

updateQuantity(state, payload) ==
  LET item == FindItem(state.items, payload.id)
      items2 == IF item # 0 /\ payload.quantity >= 1
                THEN [state.items EXCEPT ![item].quantity = payload.quantity]
                ELSE state.items
  IN [items |-> items2, total |-> ReduceTotal(items2, 0)]

\* mutant of clearCart: the total is left as it was
clearCart_KeepTotal(state) == [items |-> <<>>, total |-> state.total]

clearCart(state) == [items |-> <<>>, total |-> 0]

----------------------------------------------------------------------------
(* JavaScript strings, as sequences of one-character strings.  A field     *)
(* that is missing or not a string is the value Undefined.                 *)

Undefined == <<"undefined">>

IsString(x) == x # Undefined

\* String(x)
StringOf(x) ==
  IF x = Undefined THEN <<"u", "n", "d", "e", "f", "i", "n", "e", "d">> ELSE x

UpperCase ==
  <<"A", "B", "C", "D", "E", "F", "G", "H", "I", "J", "K", "L", "M",
    "N", "O", "P", "Q", "R", "S", "T", "U", "V", "W", "X", "Y", "Z">>

LowerCase ==
  <<"a", "b", "c", "d", "e", "f", "g", "h", "i", "j", "k", "l", "m",
    "n", "o", "p", "q", "r", "s", "t", "u", "v", "w", "x", "y", "z">>

IndexIn(seq, c) ==
  IF \E i \in 1..Len(seq) : seq[i] = c
  THEN CHOOSE i \in 1..Len(seq) : seq[i] = c
  ELSE 0

\* String.prototype.toLowerCase
toLowerCase(str) ==
  [i \in 1..Len(str) |->
     LET k == IndexIn(UpperCase, str[i])
     IN IF k = 0 THEN str[i] ELSE LowerCase[k]]

\* String.prototype.includes
includes(str, searchString) ==
  \E i \in 0..(Len(str) - Len(searchString)) :
    SubSeq(str, i + 1, i + Len(searchString)) = searchString

\* collation weights of String.prototype.localeCompare: letters compare by
\* the letter first (a space sorts before every letter), and only strings
\* equal up to case are ordered by case, lower case first
PrimaryWeight(c) == IndexIn(LowerCase, toLowerCase(<<c>>)[1])

TertiaryWeight(c) == IF IndexIn(UpperCase, c) # 0 THEN 1 ELSE 0

RECURSIVE ComparePrimary(_, _)
ComparePrimary(a, b) ==
  IF a = <<>> /\ b = <<>> THEN 0
  ELSE IF a = <<>> THEN 0 - 1
  ELSE IF b = <<>> THEN 1
  ELSE IF PrimaryWeight(Head(a)) < PrimaryWeight(Head(b)) THEN 0 - 1
  ELSE IF PrimaryWeight(Head(a)) > PrimaryWeight(Head(b)) THEN 1
  ELSE ComparePrimary(Tail(a), Tail(b))

RECURSIVE CompareTertiary(_, _)
CompareTertiary(a, b) ==
  IF a = <<>> \/ b = <<>> THEN 0
  ELSE IF TertiaryWeight(Head(a)) < TertiaryWeight(Head(b)) THEN 0 - 1
  ELSE IF TertiaryWeight(Head(a)) > TertiaryWeight(Head(b)) THEN 1
  ELSE CompareTertiary(Tail(a), Tail(b))

localeCompare(a, b) ==
  IF ComparePrimary(a, b) # 0 THEN ComparePrimary(a, b)
  ELSE CompareTertiary(a, b)

----------------------------------------------------------------------------
(* Products slice and selector: src/unnamed/part_000 *)

Null == "null"

productsInitialState ==
  [products |-> <<>>, filteredProducts |-> <<>>, searchQuery |-> <<>>,
   selectedCategory |-> <<>>, sortBy |-> "name", loading |-> FALSE,
   error |-> Null, categories |-> <<>>]

\* [...new Set(array)]: the distinct values, in order of first occurrence
RECURSIVE Distinct(_)
Distinct(seq) ==
  IF seq = <<>> THEN <<>>
  ELSE LET front == Distinct(SubSeq(seq, 1, Len(seq) - 1))
           x == seq[Len(seq)]
       IN IF \E i \in 1..Len(front) : front[i] = x THEN front
          ELSE Append(front, x)

\* the compare functions handed to Array.prototype.sort; "name" is the one of
\* applyFilters, "title" the one of selectFilteredProducts
CompareFn(kind, a, b) ==
  CASE kind = "price-asc" -> a.price - b.price
    [] kind = "price-desc" -> b.price - a.price
    [] kind = "rating" -> b.rating - a.rating
    [] kind = "name" ->
         localeCompare(IF IsString(a.title) THEN a.title ELSE <<>>,
                       IF IsString(b.title) THEN b.title ELSE <<>>)
    [] kind = "title" -> localeCompare(a.title, StringOf(b.title))

\* Array.prototype.sort is stable: an element goes behind the last element it
\* does not compare less than
\* mutant of InsertStable: an element goes before the elements it compares
\* equal to
InsertStable_BeforeEqual(sorted, a, kind) ==
  LET notBefore == {j \in 1..Len(sorted) : CompareFn(kind, a, sorted[j]) > 0}
      k == IF notBefore = {} THEN 0
           ELSE CHOOSE j \in notBefore : \A i \in notBefore : i <= j
  IN SubSeq(sorted, 1, k) \o <<a>> \o SubSeq(sorted, k + 1, Len(sorted))

InsertStable(sorted, a, kind) ==
  LET notBefore == {j \in 1..Len(sorted) : CompareFn(kind, a, sorted[j]) >= 0}
      k == IF notBefore = {} THEN 0
           ELSE CHOOSE j \in notBefore : \A i \in notBefore : i <= j
  IN SubSeq(sorted, 1, k) \o <<a>> \o SubSeq(sorted, k + 1, Len(sorted))

RECURSIVE ArraySort(_, _)
ArraySort(array, kind) ==
  IF Len(array) < 2 THEN array
  ELSE InsertStable(ArraySort(SubSeq(array, 1, Len(array) - 1), kind),
                    array[Len(array)], kind)

\* the search predicate of applyFilters
SafeLower(field) == IF IsString(field) THEN toLowerCase(field) ELSE <<>>

MatchesSearch(product, searchTerm) ==
  \/ includes(SafeLower(product.title), searchTerm)
  \/ includes(SafeLower(product.description), searchTerm)
  \/ includes(SafeLower(product.category), searchTerm)
  \/ includes(SafeLower(product.brand), searchTerm)

\* mutant of applyFilters: the array of the state is filtered and sorted, not
\* a copy of it
applyFilters_InPlace(state) ==
  LET all == state.products
      searched ==
        IF state.searchQuery # <<>>
        THEN SelectSeq(all, LAMBDA product :
                              MatchesSearch(product, toLowerCase(state.searchQuery)))
        ELSE all
      inCategory ==
        IF state.selectedCategory # <<>>
        THEN SelectSeq(searched, LAMBDA product :
                                   product.category = state.selectedCategory)
        ELSE searched
      filtered ==
        IF state.sortBy \in {"price-asc", "price-desc", "rating", "name"}
        THEN ArraySort(inCategory, state.sortBy)
        ELSE inCategory
  IN [state EXCEPT !.filteredProducts = filtered, !.products = filtered]

applyFilters(state) ==
  LET all == state.products
      searched ==
        IF state.searchQuery # <<>>
        THEN SelectSeq(all, LAMBDA product :
                              MatchesSearch(product, toLowerCase(state.searchQuery)))
        ELSE all
      inCategory ==
        IF state.selectedCategory # <<>>
        THEN SelectSeq(searched, LAMBDA product :
                                   product.category = state.selectedCategory)
        ELSE searched
      filtered ==
        IF state.sortBy \in {"price-asc", "price-desc", "rating", "name"}
        THEN ArraySort(inCategory, state.sortBy)
        ELSE inCategory
  IN [state EXCEPT !.filteredProducts = filtered]

setLoading(state, payload) == [state EXCEPT !.loading = payload]

\* mutants of setProducts: the search text is reset by a load; the categories
\* are not made distinct
setProducts_ResetsSearch(state, payload) ==
  applyFilters([state EXCEPT
                  !.products = payload,
                  !.categories =
                     Distinct([i \in 1..Len(payload) |-> payload[i].category]),
                  !.searchQuery = <<>>,
                  !.loading = FALSE,
                  !.error = Null])

setProducts_AllCategories(state, payload) ==
  applyFilters([state EXCEPT
                  !.products = payload,
                  !.categories = [i \in 1..Len(payload) |-> payload[i].category],
                  !.loading = FALSE,
                  !.error = Null])

setProducts(state, payload) ==
  applyFilters([state EXCEPT
                  !.products = payload,
                  !.categories =
                     Distinct([i \in 1..Len(payload) |-> payload[i].category]),
                  !.loading = FALSE,
                  !.error = Null])

\* mutant of setError: loading is left as it was
setError_KeepsLoading(state, payload) == [state EXCEPT !.error = payload]

setError(state, payload) == [state EXCEPT !.error = payload, !.loading = FALSE]

setSearchQuery(state, payload) ==
  applyFilters([state EXCEPT !.searchQuery = payload])

setSelectedCategory(state, payload) ==
  applyFilters([state EXCEPT !.selectedCategory = payload])

setSortBy(state, payload) ==
  applyFilters([state EXCEPT !.sortBy = payload])

\* The result function of selectFilteredProducts.  A method call on a field
\* that is not a string raises a TypeError, which leaves the selector: the
\* outcome is [ok |-> FALSE], otherwise [ok |-> TRUE, value |-> the list].
Thrown == [ok |-> FALSE, value |-> <<>>]

Returned(value) == [ok |-> TRUE, value |-> value]

\* product.title.toLowerCase().includes(q) || product.description... ||
\* product.category...  : evaluated left to right, stopping at the first true
SelectorMatch(product, searchQuery) ==
  LET q == toLowerCase(searchQuery)
  IN IF ~IsString(product.title) THEN "throw"
     ELSE IF includes(toLowerCase(product.title), q) THEN "true"
     ELSE IF ~IsString(product.description) THEN "throw"
     ELSE IF includes(toLowerCase(product.description), q) THEN "true"
     ELSE IF ~IsString(product.category) THEN "throw"
     ELSE IF includes(toLowerCase(product.category), q) THEN "true"
     ELSE "false"

\* a.title.localeCompare(b.title) raises when a.title is not a string (an
\* undefined b.title is compared as the string "undefined").  The sort of V8
\* calls the compare function with every element but the first as a.
SortThrows(array, kind) ==
  /\ kind = "title"
  /\ \E i \in 2..Len(array) : ~IsString(array[i].title)

All == <<"a", "l", "l">>

\* mutant of SelectorInCategory: no "all" sentinel
SelectorInCategory_NoSentinel(product, selectedCategory) ==
  \/ selectedCategory = <<>>
  \/ product.category = selectedCategory

\* if (selectedCategory && selectedCategory !== "all")
\*   filtered = filtered.filter((product) => product.category === selectedCategory)
SelectorInCategory(product, selectedCategory) ==
  \/ selectedCategory = <<>>
  \/ selectedCategory = All
  \/ product.category = selectedCategory

selectFilteredProducts(state) ==
  LET all == state.products.products
      searchQuery == state.products.searchQuery
      selectedCategory == state.products.selectedCategory
      sortBy == state.products.sortBy
      searchThrows ==
        /\ searchQuery # <<>>
        /\ \E i \in 1..Len(all) : SelectorMatch(all[i], searchQuery) = "throw"
      searched ==
        IF searchQuery # <<>>
        THEN SelectSeq(all, LAMBDA product :
                              SelectorMatch(product, searchQuery) = "true")
        ELSE all
      inCategory ==
        SelectSeq(searched, LAMBDA product :
                              SelectorInCategory(product, selectedCategory))
      kind == IF sortBy \in {"price-asc", "price-desc", "rating"}
              THEN sortBy ELSE "title"
  IN IF searchThrows THEN Thrown
     ELSE IF SortThrows(inCategory, kind) THEN Thrown
     ELSE Returned(ArraySort(inCategory, kind))

\* createSelector: the result function runs only when one of the four input
\* selectors delivers another value than at the last computation (compared
\* with ===).  searchQuery, selectedCategory and sortBy are strings; the
\* products array is compared by reference: memo.sameRef tells whether
\* state.products.products still is the array of the last computation, and
\* newRef whether this dispatch has replaced it.  A result function that
\* throws leaves the cache as it was.
memoInitial ==
  [args |-> <<productsInitialState.searchQuery,
              productsInitialState.selectedCategory,
              productsInitialState.sortBy>>,
   sameRef |-> TRUE, result |-> <<>>, recomputed |-> TRUE]

\* mutant of createSelectorCall: no cache, the result function runs on every
\* call
createSelectorCall_NoCache(m, state, newRef) ==
  LET args == <<state.products.searchQuery, state.products.selectedCategory,
                state.products.sortBy>>
      r == selectFilteredProducts(state)
  IN IF r.ok
     THEN [memo |-> [args |-> args, sameRef |-> TRUE, result |-> r.value,
                     recomputed |-> TRUE],
           out |-> r]
     ELSE [memo |-> [m EXCEPT !.sameRef = m.sameRef /\ ~newRef,
                              !.recomputed = TRUE],
           out |-> Thrown]

\* mutant of createSelectorCall: sortBy is not among the inputs
createSelectorCall_WithoutSortBy(m, state, newRef) ==
  LET args == <<state.products.searchQuery, state.products.selectedCategory,
                state.products.sortBy>>
      hit == /\ ~newRef
             /\ m.sameRef
             /\ m.args[1] = args[1]
             /\ m.args[2] = args[2]
      r == selectFilteredProducts(state)
  IN IF hit
     THEN [memo |-> [m EXCEPT !.recomputed = FALSE], out |-> Returned(m.result)]
     ELSE IF r.ok
          THEN [memo |-> [args |-> args, sameRef |-> TRUE, result |-> r.value,
                          recomputed |-> TRUE],
                out |-> r]
          ELSE [memo |-> [m EXCEPT !.sameRef = m.sameRef /\ ~newRef,
                                   !.recomputed = TRUE],
                out |-> Thrown]

createSelectorCall(m, state, newRef) ==
  LET args == <<state.products.searchQuery, state.products.selectedCategory,
                state.products.sortBy>>
      hit == ~newRef /\ m.sameRef /\ m.args = args
      r == selectFilteredProducts(state)
  IN IF hit
     THEN [memo |-> [m EXCEPT !.recomputed = FALSE], out |-> Returned(m.result)]
     ELSE IF r.ok
          THEN [memo |-> [args |-> args, sameRef |-> TRUE, result |-> r.value,
                          recomputed |-> TRUE],
                out |-> r]
          ELSE [memo |-> [m EXCEPT !.sameRef = m.sameRef /\ ~newRef,
                                   !.recomputed = TRUE],
                out |-> Thrown]

----------------------------------------------------------------------------
(* Inputs of the products slice *)

RedShoe ==
  [id |-> 1, title |-> <<"R", "e", "d", " ", "S", "h", "o", "e">>,
   description |-> <<"r", "u", "n">>,
   category |-> <<"s", "h", "o", "e", "s">>,
   brand |-> <<"N", "i", "k", "e">>, price |-> 50, rating |-> 4]

BlueHat ==
  [id |-> 2, title |-> <<"B", "l", "u", "e", " ", "H", "a", "t">>,
   description |-> <<"c", "a", "p">>,
   category |-> <<"h", "a", "t", "s">>,
   brand |-> <<"A", "c", "m", "e">>, price |-> 10, rating |-> 5]

\* a malformed record: no title, no brand
Untitled ==
  [id |-> 3, title |-> Undefined,
   description |-> <<"c", "a", "p">>,
   category |-> <<"h", "a", "t", "s">>,
   brand |-> Undefined, price |-> 10, rating |-> 5]

Pool == {RedShoe, BlueHat, Untitled}

RECURSIVE SeqsUpTo(_, _)
SeqsUpTo(S, n) ==
  IF n = 0 THEN {<<>>}
  ELSE LET shorter == SeqsUpTo(S, n - 1)
       IN shorter \cup
          {Append(seq, x) : seq \in {t \in shorter : Len(t) = n - 1}, x \in S}

\* collections of distinct products, in any order
Collections ==
  {seq \in SeqsUpTo(Pool, MaxProducts) :
     \A i, j \in 1..Len(seq) : seq[i] = seq[j] => i = j}

SearchTexts == { <<>>, <<"s", "h", "o", "e">>, <<"N", "I", "K", "E">> }

\* no filter, the sentinel, a category, and the same in another case
CategoryChoices ==
  { <<>>, All, <<"h", "a", "t", "s">>, <<"H", "a", "t", "s">> }

SortKeys == {"name", "price-asc", "price-desc", "rating", "newest"}

ErrorMessages == {"Failed to fetch products"}

----------------------------------------------------------------------------
(* The fetch handlers: fetchProducts of useProducts, fetchProduct of       *)
(* ProductDetail                                                           *)

\* err.message of what the promises reject with
NetworkMessage == "Failed to fetch"
StatusMessage == "Failed to fetch products"
SyntaxMessage == "Unexpected token"
MapMessage == "Cannot read properties of undefined (reading 'map')"
AbortMessage == "signal is aborted without reason"
NotFoundMessage == "Product not found"

\* how the promise of fetch settles while the signal is not aborted
ResponseOutcomes == {"ok", "network", "status"}

\* what response.json() of the catalog delivers: a syntax error, an object
\* without products, an object with a products array
Bodies ==
  {[parsed |-> FALSE, hasProducts |-> FALSE, products |-> <<>>],
   [parsed |-> TRUE, hasProducts |-> FALSE, products |-> <<>>]}
  \cup {[parsed |-> TRUE, hasProducts |-> TRUE, products |-> c] : c \in Collections}

\* the bodies without a usable products collection
FailedBodies == {body \in Bodies : ~body.hasProducts}

\* the outcome of a handler that dispatched nothing
NoDispatch(state) == [state |-> state, type |-> "none"]

\* mutant of fetchProductsCatch: the abort flag is not looked at
fetchProductsCatch_IgnoresAbort(state, aborted, message) ==
  [state |-> setError(state, message), type |-> "setError"]

\* the catch block of fetchProducts; the outcome of a handler is the slice
\* state after it and the type of the action it dispatched
fetchProductsCatch(state, aborted, message) ==
  IF aborted
  THEN NoDispatch(state)
  ELSE [state |-> setError(state, message), type |-> "setError"]

\* mutant of fetchProductsThen: the TypeError of the reducer is not caught
fetchProductsThen_Uncaught(state, aborted, body) ==
  IF ~body.parsed THEN fetchProductsCatch(state, aborted, SyntaxMessage)
  ELSE IF aborted THEN NoDispatch(state)
  ELSE IF body.hasProducts
       THEN [state |-> setProducts(state, body.products), type |-> "setProducts"]
       ELSE NoDispatch(state)

\* what follows await response.json(): dispatch(setProducts(data.products))
\* unless aborted; the reducer throws on a payload without map, the draft is
\* dropped and the catch block runs
fetchProductsThen(state, aborted, body) ==
  IF ~body.parsed THEN fetchProductsCatch(state, aborted, SyntaxMessage)
  ELSE IF aborted THEN NoDispatch(state)
  ELSE IF body.hasProducts
       THEN [state |-> setProducts(state, body.products), type |-> "setProducts"]
       ELSE fetchProductsCatch(state, aborted, MapMessage)

\* product === null
NoProduct == 0

detailInitial == [product |-> NoProduct, loading |-> TRUE, error |-> Null]

\* what response.json() of one product delivers
DetailBodies == {[parsed |-> parsed] : parsed \in BOOLEAN}

\* the catch and finally blocks of fetchProduct
fetchProductCatch(local, aborted, message) ==
  IF aborted
  THEN NoDispatch(local)
  ELSE [state |-> [local EXCEPT !.error = message, !.loading = FALSE],
        type |-> "detail:setError"]

\* what follows await response.json() in fetchProduct, with its finally block
fetchProductThen(local, aborted, body, data) ==
  IF ~body.parsed THEN fetchProductCatch(local, aborted, SyntaxMessage)
  ELSE IF aborted THEN NoDispatch(local)
  ELSE [state |-> [local EXCEPT !.product = data, !.loading = FALSE],
        type |-> "detail:setProduct"]

\* abortController.abort() of the cleanup functions; only the effect that is
\* cleaned up has a fetch whose signal is not aborted yet
abort(fs) == {[f EXCEPT !.aborted = TRUE] : f \in fs}

FreeSlots(fs) == (1..MaxInFlight) \ {f.n : f \in fs}

Lowest(S) == CHOOSE n \in S : \A m \in S : n <= m

\* the effect calls fetch; under React.StrictMode a development build runs
\* the effect, its cleanup and the effect again when the component mounts
StartFetch(fs, kind, productId, strict) ==
  LET n1 == Lowest(FreeSlots(fs))
      first == [kind |-> kind, n |-> n1, productId |-> productId,
                phase |-> "request", aborted |-> strict]
      n2 == Lowest(FreeSlots(fs) \ {n1})
  IN IF strict
     THEN fs \cup {first, [first EXCEPT !.n = n2, !.aborted = FALSE]}
     ELSE fs \cup {first}

\* mutant of ShouldFetch: every run of the effect fetches
ShouldFetch_Always(state) == TRUE

\* if (products.length === 0) fetchProducts()
ShouldFetch(state) == Len(state.products) = 0

CanStart(fs, strict) == Cardinality(FreeSlots(fs)) >= (IF strict THEN 2 ELSE 1)

DetailIds == Ids

----------------------------------------------------------------------------
(* Checkout: src/src/components/checkout.jsx *)

\* useState of isProcessing and of orderPlaced
checkoutInitial == [isProcessing |-> FALSE, orderPlaced |-> FALSE]

\* The form and the payment method.  A field is "" (empty), "bad" (filled in
\* but rejected by its pattern) or "good"; shipping: the seven required
\* shipping fields other than phone are filled in; card: cardNumber,
\* expiryDate, cvv and cardName.
ValidCardForm ==
  [email |-> "good", shipping |-> TRUE, phone |-> "good",
   paymentMethod |-> "card", card |-> "good", upiId |-> ""]

Forms ==
  { ValidCardForm,
    [ValidCardForm EXCEPT !.paymentMethod = "cod", !.card = ""],
    [ValidCardForm EXCEPT !.paymentMethod = "upi", !.card = "", !.upiId = "bad"],
    [ValidCardForm EXCEPT !.email = "bad"],
    [ValidCardForm EXCEPT !.phone = "bad"],
    [ValidCardForm EXCEPT !.card = "bad"],
    [ValidCardForm EXCEPT !.email = "", !.shipping = FALSE, !.phone = "",
                          !.card = ""] }

\* Object.keys(newErrors)
FormErrors(form) ==
  (IF form.email # "good" THEN {"email"} ELSE {})
  \cup (IF ~form.shipping THEN {"firstName"} ELSE {})
  \cup (IF form.phone # "good" THEN {"phone"} ELSE {})
  \cup (IF form.paymentMethod = "card" /\ form.card # "good"
        THEN {"cardNumber"} ELSE {})
  \cup (IF form.paymentMethod = "upi" /\ form.upiId # "good"
        THEN {"upiId"} ELSE {})

validateForm(form) == FormErrors(form) = {}

\* the Checkout that submitted these orders has unmounted
Unmounted(os) == [i \in 1..Len(os) |-> [os[i] EXCEPT !.live = FALSE]]

\* the form is rendered: the cart has items and no order was placed
FormShown == Len(cart.items) > 0 /\ ~checkout.orderPlaced

\* the product that is put into the cart in the checkout session
CheckoutPayloads == {p \in Payloads : p.id = 1 /\ p.title = "Red Shoe"}

----------------------------------------------------------------------------
(* The search input of the Header and useDebounce *)

debounceInitial == [value |-> <<>>, pending |-> FALSE]

\* String.prototype.trim, for the white space " "
RECURSIVE trimStart(_)
trimStart(str) ==
  IF str # <<>> /\ Head(str) = " " THEN trimStart(Tail(str)) ELSE str

RECURSIVE trimEnd(_)
trimEnd(str) ==
  IF str # <<>> /\ str[Len(str)] = " "
  THEN trimEnd(SubSeq(str, 1, Len(str) - 1))
  ELSE str

trim(str) == trimEnd(trimStart(str))

\* e.target.value after a keystroke
TypedTexts == { <<>>, <<"s">>, <<"s", "h">>, <<"s", "h", " ">> }

\* useEffect(() => setLocalSearch(searchQuery), [searchQuery])
syncLocalSearch(local, before, after) == IF after # before THEN after ELSE local

\* the effect of useDebounce: a change of the value clears the timer and
\* arms a new one
useDebounceEffect(d, mounted, before, after) ==
  IF mounted /\ after # before THEN [d EXCEPT !.pending = TRUE] ELSE d

----------------------------------------------------------------------------
(* Toasts: src/src/hooks/use-toast.js *)

\* the ids genId returns, as numbers
ToastIds == 1..MaxToasts

TOAST_LIMIT == 1

\* toastId === undefined
NoToastId == 0

ToastTitles == {"Added to cart", "Updated"}

\* the props of update(): a title, and an open flag or none
ToastProps ==
  [title : ToastTitles, hasOpen : BOOLEAN, open : BOOLEAN]

\* array.slice(0, n)
Slice(array, n) == SubSeq(array, 1, IF Len(array) < n THEN Len(array) ELSE n)

\* mutant of reducerAddToast: the new toast goes behind the older ones
reducerAddToast_Appends(ts, toast) == Slice(ts \o <<toast>>, TOAST_LIMIT)

\* case "ADD_TOAST"
reducerAddToast(ts, toast) == Slice(<<toast>> \o ts, TOAST_LIMIT)

\* case "UPDATE_TOAST": { ...t, ...action.toast }
reducerUpdateToast(ts, id, props) ==
  [i \in 1..Len(ts) |->
     IF ts[i].id = id
     THEN [id |-> id,
           title |-> props.title,
           open |-> IF props.hasOpen THEN props.open ELSE ts[i].open]
     ELSE ts[i]]

\* mutant of addToRemoveQueue: a timer is set whether or not one is pending
addToRemoveQueue_Always(queue, toastId) ==
  [timeouts |-> queue.timeouts \cup {toastId},
   timers |-> [queue.timers EXCEPT ![toastId] = @ + 1]]

\* addToRemoveQueue, on the Map toastTimeouts and the timers of the browser
addToRemoveQueue(queue, toastId) ==
  IF toastId \in queue.timeouts
  THEN queue
  ELSE [timeouts |-> queue.timeouts \cup {toastId},
        timers |-> [queue.timers EXCEPT ![toastId] = @ + 1]]

\* state.toasts.forEach((toast) => addToRemoveQueue(toast.id))
RECURSIVE addAllToRemoveQueue(_, _)
addAllToRemoveQueue(queue, ts) ==
  IF ts = <<>> THEN queue
  ELSE addAllToRemoveQueue(addToRemoveQueue(queue, Head(ts).id), Tail(ts))

\* case "DISMISS_TOAST": the side effect on the timers
dismissQueue(queue, ts, toastId) ==
  IF toastId # NoToastId THEN addToRemoveQueue(queue, toastId)
  ELSE addAllToRemoveQueue(queue, ts)

\* case "DISMISS_TOAST": the next toasts
reducerDismissToast(ts, toastId) ==
  [i \in 1..Len(ts) |->
     IF ts[i].id = toastId \/ toastId = NoToastId
     THEN [ts[i] EXCEPT !.open = FALSE]
     ELSE ts[i]]

\* case "REMOVE_TOAST"
reducerRemoveToast(ts, toastId) ==
  IF toastId = NoToastId THEN <<>>
  ELSE SelectSeq(ts, LAMBDA t : t.id # toastId)

\* count = (count + 1) % Number.MAX_SAFE_INTEGER; the counts of the model
\* stay below 2^53 - 1, where the remainder is count + 1 itself
genId(c) == c + 1

----------------------------------------------------------------------------
(* Dispatches *)

NoPayload == [id |-> 0, title |-> "", price |-> 0, image |-> ""]

\* history of the last dispatch: its type, its payload and the number of cart
\* items it found
Last(op, payload, quantity) ==
  [op |-> op, payload |-> payload, quantity |-> quantity, before |-> Len(cart.items)]

Init ==
  /\ cart = cartInitialState
  /\ products = productsInitialState
  /\ view = selectFilteredProducts([cart |-> cartInitialState,
                                    products |-> productsInitialState])
  /\ memo = memoInitial
  /\ last = [op |-> "init", payload |-> NoPayload, quantity |-> 0, before |-> 0]
  /\ route = [path |-> "none", productId |-> 0]
  /\ fetches = {}
  /\ detail = detailInitial
  /\ checkout = checkoutInitial
  /\ orders = <<>>
  /\ redirects = 0
  /\ localSearch = productsInitialState.searchQuery
  /\ debounce = debounceInitial
  /\ toasts = <<>>
  /\ toastTimeouts = {}
  /\ timers = [id \in ToastIds |-> 0]
  /\ count = 0

\* A TypeError out of the selector is raised while ProductList renders; no
\* error boundary catches it, so the React tree is unmounted and nothing
\* dispatches any more.
Rendering == view.ok

\* after a dispatch the subscribed useAppSelector runs selectFilteredProducts
\* on the new store state; newRef: the dispatch has replaced the products array
RunSelector(nextCart, nextProducts, newRef) ==
  LET call == createSelectorCall(memo, [cart |-> nextCart, products |-> nextProducts],
                                 newRef)
  IN /\ memo' = call.memo
     /\ view' = call.out

\* the quantity an addToCart of this payload would reach stays within MaxQty
WithinQty(payload) ==
  \A i \in 1..Len(cart.items) :
    cart.items[i].id = payload.id => cart.items[i].quantity < MaxQty

DispatchAddToCart ==
  \E payload \in Payloads :
    /\ Rendering
    /\ WithinQty(payload)
    /\ cart' = addToCart(cart, payload)
    /\ last' = Last("addToCart", payload, 0)
    /\ RunSelector(cart', products, FALSE)
    /\ UNCHANGED <<products, fetchVars, uiVars>>

DispatchRemoveFromCart ==
  \E id \in Ids :
    /\ Rendering
    /\ cart' = removeFromCart(cart, id)
    /\ last' = Last("removeFromCart", [NoPayload EXCEPT !.id = id], 0)
    /\ RunSelector(cart', products, FALSE)
    /\ UNCHANGED <<products, fetchVars, uiVars>>

DispatchUpdateQuantity ==
  \E id \in Ids, quantity \in Quantities :
    /\ Rendering
    /\ cart' = updateQuantity(cart, [id |-> id, quantity |-> quantity])
    /\ last' = Last("updateQuantity", [NoPayload EXCEPT !.id = id], quantity)
    /\ RunSelector(cart', products, FALSE)
    /\ UNCHANGED <<products, fetchVars, uiVars>>

DispatchClearCart ==
  /\ Rendering
  /\ cart' = clearCart(cart)
  /\ last' = Last("clearCart", NoPayload, 0)
  /\ RunSelector(cart', products, FALSE)
  /\ UNCHANGED <<products, fetchVars, uiVars>>

NextCart ==
  \/ DispatchAddToCart
  \/ DispatchRemoveFromCart
  \/ DispatchUpdateQuantity
  \/ DispatchClearCart

SpecCart == Init /\ [][NextCart]_vars

\* A dispatch to the products slice; the subscribed useAppSelector then runs
\* selectFilteredProducts on the new store state.
DispatchProducts(op, next) ==
  /\ Rendering
  /\ products' = next
  /\ RunSelector(cart, next, op = "setProducts")
  /\ last' = Last(op, NoPayload, 0)
  /\ localSearch' = syncLocalSearch(localSearch, products.searchQuery, next.searchQuery)
  /\ debounce' = useDebounceEffect(debounce, route.path = "/",
                                   products.searchQuery, next.searchQuery)
  /\ UNCHANGED <<cart, fetchVars, checkoutVars, toastVars>>

DispatchSetLoading ==
  \E payload \in BOOLEAN :
    DispatchProducts("setLoading", setLoading(products, payload))

DispatchSetProducts ==
  \E payload \in Collections :
    DispatchProducts("setProducts", setProducts(products, payload))

DispatchSetError ==
  \E payload \in ErrorMessages :
    DispatchProducts("setError", setError(products, payload))

DispatchSetSearchQuery ==
  \E payload \in SearchTexts :
    DispatchProducts("setSearchQuery", setSearchQuery(products, payload))

DispatchSetSelectedCategory ==
  \E payload \in CategoryChoices :
    DispatchProducts("setSelectedCategory", setSelectedCategory(products, payload))

DispatchSetSortBy ==
  \E payload \in SortKeys :
    DispatchProducts("setSortBy", setSortBy(products, payload))

NextCatalog ==
  \/ DispatchSetLoading
  \/ DispatchSetProducts
  \/ DispatchSetError
  \/ DispatchSetSearchQuery
  \/ DispatchSetSelectedCategory
  \/ DispatchSetSortBy

SpecCatalog == Init /\ [][NextCatalog]_vars

\* the products intents together with a cart intent
NextStore ==
  \/ NextCatalog
  \/ DispatchClearCart

SpecStore == Init /\ [][NextStore]_vars

\* The page that was rendered unmounts and the next one mounts: Checkout
\* loses its state, the Header of the next page starts from the search text
\* of the store, useDebounce exists with ProductList.
ChangePage(toHome, searchQuery) ==
  /\ checkout' = checkoutInitial
  /\ orders' = Unmounted(orders)
  /\ localSearch' = searchQuery
  /\ debounce' = IF toHome THEN [value |-> searchQuery, pending |-> TRUE]
                           ELSE debounceInitial

\* ProductList mounts over the slice state: its selector runs, and when the
\* render did not throw the effect of useProducts fetches while the store
\* has no products; setLoading leaves the inputs of the selector as the
\* mount found them.  op: what the step is when the effect dispatches nothing.
EnterHome(state, strict, op) ==
  LET cleaned == abort(fetches)
  IN /\ RunSelector(cart, state, FALSE)
     /\ route' = [path |-> "/", productId |-> 0]
     /\ detail' = detailInitial
     /\ IF view'.ok /\ ShouldFetch(state)
        THEN /\ CanStart(cleaned, strict)
             /\ fetches' = StartFetch(cleaned, "products", 0, strict)
             /\ products' = setLoading(state, TRUE)
             /\ last' = Last("setLoading", NoPayload, 0)
        ELSE /\ fetches' = cleaned
             /\ products' = state
             /\ last' = Last(op, NoPayload, 0)

\* A navigation to "/": the page that was rendered unmounts, then
\* ProductList mounts.
NavigateHome ==
  \E strict \in BOOLEAN :
    /\ Rendering
    /\ route.path # "/"
    /\ EnterHome(products, strict, "navigate")
    /\ ChangePage(TRUE, products.searchQuery)
    /\ UNCHANGED <<cart, redirects, toastVars>>

\* A navigation to "/product/:id": ProductDetail mounts, or its productId
\* changes; the effect cleans up and fetches the product.
NavigateProduct ==
  \E id \in DetailIds, strict \in BOOLEAN :
    LET mounting == route.path # "/product"
        cleaned == abort(fetches)
    IN /\ Rendering
       /\ mounting \/ id # route.productId
       /\ CanStart(cleaned, mounting /\ strict)
       /\ route' = [path |-> "/product", productId |-> id]
       /\ detail' = IF mounting THEN detailInitial
                                ELSE [detail EXCEPT !.loading = TRUE]
       /\ fetches' = StartFetch(cleaned, "detail", id, mounting /\ strict)
       /\ last' = Last("navigate", NoPayload, 0)
       /\ IF mounting THEN ChangePage(FALSE, products.searchQuery)
                      ELSE UNCHANGED <<checkout, orders, searchVars>>
       /\ UNCHANGED <<cart, products, view, memo, redirects, toastVars>>

\* A navigation to "/cart": the page that was rendered unmounts.
NavigateCart ==
  /\ Rendering
  /\ route.path # "/cart"
  /\ route' = [path |-> "/cart", productId |-> 0]
  /\ detail' = detailInitial
  /\ fetches' = abort(fetches)
  /\ last' = Last("navigate", NoPayload, 0)
  /\ ChangePage(FALSE, products.searchQuery)
  /\ UNCHANGED <<cart, products, view, memo, redirects, toastVars>>

\* the fetch f is settled; a TypeError in the render that follows a dispatch
\* unmounts the tree, whose cleanups abort what is in flight
Settle(f) ==
  fetches' = IF view'.ok THEN fetches \ {f} ELSE abort(fetches \ {f})

\* fetchProducts runs on with outcome r
Deliver(f, r) ==
  /\ products' = r.state
  /\ IF r.type = "none"
     THEN UNCHANGED <<view, memo>>
     ELSE RunSelector(cart, r.state, r.type = "setProducts")
  /\ Settle(f)
  /\ last' = Last(IF r.type = "none" THEN "discarded" ELSE r.type,
                  [NoPayload EXCEPT !.title = f.kind], 0)
  /\ UNCHANGED <<cart, route, detail, uiVars>>

\* fetchProduct runs on with outcome r
DeliverDetail(f, r) ==
  /\ detail' = r.state
  /\ fetches' = fetches \ {f}
  /\ last' = Last(IF r.type = "none" THEN "discarded" ELSE r.type,
                  [NoPayload EXCEPT !.title = f.kind], 0)
  /\ UNCHANGED <<cart, products, view, memo, route, uiVars>>

\* the body of the response is awaited next
AwaitBody(f) ==
  /\ fetches' = (fetches \ {f}) \cup {[f EXCEPT !.phase = "body"]}
  /\ last' = Last("response", [NoPayload EXCEPT !.title = f.kind], 0)
  /\ UNCHANGED <<cart, products, view, memo, route, detail, uiVars>>

\* the promise of fetch("https://dummyjson.com/products?limit=100") settles
ProductsResponse ==
  \E f \in fetches, outcome \in ResponseOutcomes :
    /\ f.kind = "products"
    /\ f.phase = "request"
    /\ IF f.aborted
       THEN Deliver(f, fetchProductsCatch(products, TRUE, AbortMessage))
       ELSE IF outcome = "ok"
            THEN AwaitBody(f)
            ELSE Deliver(f, fetchProductsCatch(products, FALSE,
                              IF outcome = "network" THEN NetworkMessage
                                                     ELSE StatusMessage))

\* the promise of response.json() settles
ProductsBody ==
  \E f \in fetches, body \in Bodies :
    /\ f.kind = "products"
    /\ f.phase = "body"
    /\ Deliver(f, fetchProductsThen(products, f.aborted, body))

\* the promise of fetch(`https://dummyjson.com/products/${productId}`) settles
DetailResponse ==
  \E f \in fetches, outcome \in ResponseOutcomes :
    /\ f.kind = "detail"
    /\ f.phase = "request"
    /\ IF f.aborted
       THEN DeliverDetail(f, fetchProductCatch(detail, TRUE, AbortMessage))
       ELSE IF outcome = "ok"
            THEN AwaitBody(f)
            ELSE DeliverDetail(f, fetchProductCatch(detail, FALSE,
                                    IF outcome = "network" THEN NetworkMessage
                                                           ELSE NotFoundMessage))

\* the promise of response.json() of the product settles
DetailBody ==
  \E f \in fetches, body \in DetailBodies :
    /\ f.kind = "detail"
    /\ f.phase = "body"
    /\ DeliverDetail(f, fetchProductThen(detail, f.aborted, body, f.productId))

NextFetch ==
  \/ NavigateHome
  \/ NavigateProduct
  \/ NavigateCart
  \/ ProductsResponse
  \/ ProductsBody
  \/ DetailResponse
  \/ DetailBody

SpecFetch == Init /\ [][NextFetch]_vars

\* the filters of ProductFilters are on the home page only
HomeSetSelectedCategory == route.path = "/" /\ DispatchSetSelectedCategory

HomeSetSortBy == route.path = "/" /\ DispatchSetSortBy

\* a session on the home page and the cart page: mounts and unmounts of
\* ProductList, the catalog fetch, filter intents and a cart intent
NextSession ==
  \/ NavigateHome
  \/ NavigateCart
  \/ ProductsResponse
  \/ ProductsBody
  \/ HomeSetSelectedCategory
  \/ HomeSetSortBy
  \/ DispatchClearCart

SpecSession == Init /\ [][NextSession]_vars

\* A navigation to "/checkout": Checkout mounts with its initial state.
NavigateCheckout ==
  /\ Rendering
  /\ route.path # "/checkout"
  /\ route' = [path |-> "/checkout", productId |-> 0]
  /\ detail' = detailInitial
  /\ fetches' = abort(fetches)
  /\ ChangePage(FALSE, products.searchQuery)
  /\ last' = Last("navigate", NoPayload, 0)
  /\ UNCHANGED <<cart, products, view, memo, redirects, toastVars>>

\* handleSubmit up to its await: validateForm, setIsProcessing(true) and the
\* timer of the simulated payment.  The button is disabled while processing.
SubmitOrder ==
  \E form \in Forms :
    /\ Rendering
    /\ route.path = "/checkout"
    /\ FormShown
    /\ ~checkout.isProcessing
    /\ IF validateForm(form)
       THEN /\ Len(orders) < MaxOrders
            /\ checkout' = [checkout EXCEPT !.isProcessing = TRUE]
            /\ orders' = Append(orders, [items |-> cart.items, live |-> TRUE])
            /\ last' = Last("submit", NoPayload, 0)
       ELSE /\ UNCHANGED <<checkout, orders>>
            /\ last' = Last("invalid", NoPayload, 0)
    /\ UNCHANGED <<cart, products, view, memo, fetchVars, redirects,
                   searchVars, toastVars>>

\* handleSubmit after its await: setOrderPlaced(true), which a Checkout that
\* has unmounted ignores, dispatch(clearCart()) and the timer of the redirect
ConfirmOrder ==
  /\ orders # <<>>
  /\ redirects < MaxOrders
  /\ checkout' = IF Head(orders).live
                 THEN [checkout EXCEPT !.orderPlaced = TRUE]
                 ELSE checkout
  /\ cart' = clearCart(cart)
  /\ RunSelector(cart', products, FALSE)
  /\ orders' = Tail(orders)
  /\ redirects' = redirects + 1
  /\ last' = Last("clearCart", [NoPayload EXCEPT !.title = "checkout"], 0)
  /\ UNCHANGED <<products, fetchVars, searchVars, toastVars>>

\* the timer of the redirect fires: navigate("/")
RedirectHome ==
  \E strict \in BOOLEAN :
    /\ redirects > 0
    /\ redirects' = redirects - 1
    /\ IF route.path = "/" \/ ~Rendering
       THEN /\ last' = Last("redirect", NoPayload, 0)
            /\ UNCHANGED <<cart, products, view, memo, fetchVars, checkout,
                           orders, searchVars, toastVars>>
       ELSE /\ EnterHome(products, strict, "redirect")
            /\ ChangePage(TRUE, products.searchQuery)
            /\ UNCHANGED <<cart, toastVars>>

\* addToCart from a product card or a product page
CheckoutAddToCart ==
  \E payload \in CheckoutPayloads :
    /\ Rendering
    /\ route.path \in {"/", "/product"}
    /\ WithinQty(payload)
    /\ cart' = addToCart(cart, payload)
    /\ last' = Last("addToCart", payload, 0)
    /\ RunSelector(cart', products, FALSE)
    /\ UNCHANGED <<products, fetchVars, uiVars>>

\* the buttons of CartSidebar, which the Header of every page renders
SidebarIntent(id, next) ==
  /\ Rendering
  /\ route.path # "none"
  /\ cart' = next
  /\ last' = Last("sidebar", [NoPayload EXCEPT !.id = id], 0)
  /\ RunSelector(cart', products, FALSE)
  /\ UNCHANGED <<products, fetchVars, uiVars>>

SidebarRemove ==
  \E i \in 1..Len(cart.items) :
    SidebarIntent(cart.items[i].id, removeFromCart(cart, cart.items[i].id))

SidebarDecrement ==
  \E i \in 1..Len(cart.items) :
    LET item == cart.items[i]
        quantity == IF item.quantity - 1 > 1 THEN item.quantity - 1 ELSE 1
    IN SidebarIntent(item.id, updateQuantity(cart, [id |-> item.id, quantity |-> quantity]))

SidebarIncrement ==
  \E i \in 1..Len(cart.items) :
    LET item == cart.items[i]
    IN /\ item.quantity < MaxQty
       /\ SidebarIntent(item.id, updateQuantity(cart, [id |-> item.id,
                                                       quantity |-> item.quantity + 1]))

NextCheckout ==
  \/ NavigateHome
  \/ NavigateCheckout
  \/ NavigateCart
  \/ SubmitOrder
  \/ ConfirmOrder
  \/ RedirectHome
  \/ ProductsResponse
  \/ ProductsBody
  \/ CheckoutAddToCart
  \/ SidebarRemove
  \/ SidebarDecrement
  \/ SidebarIncrement

SpecCheckout == Init /\ [][NextCheckout]_vars

\* handleSearchChange, for the text the input holds after a keystroke:
\* setLocalSearch(value), dispatch(setSearchQuery(value.trim())), and
\* navigate("/") from another page when the text is not blank
TypeSearch ==
  \E value \in TypedTexts, strict \in BOOLEAN :
    LET trimmed == trim(value)
        next == setSearchQuery(products, trimmed)
    IN /\ Rendering
       /\ route.path # "none"
       /\ value # localSearch
       /\ IF route.path # "/" /\ trimmed # <<>>
          THEN /\ EnterHome(next, strict, "setSearchQuery")
               /\ ChangePage(TRUE, trimmed)
          ELSE /\ products' = next
               /\ IF route.path = "/" THEN RunSelector(cart, next, FALSE)
                                      ELSE UNCHANGED <<view, memo>>
               /\ localSearch' = syncLocalSearch(value, products.searchQuery, trimmed)
               /\ debounce' = useDebounceEffect(debounce, route.path = "/",
                                                products.searchQuery, trimmed)
               /\ last' = Last("setSearchQuery", NoPayload, 0)
               /\ UNCHANGED <<fetchVars, checkout, orders>>
       /\ UNCHANGED <<cart, redirects, toastVars>>

\* handleSearch, on Enter: dispatch(setSearchQuery(localSearch.trim())) and
\* navigate("/") from another page
SubmitSearch ==
  \E strict \in BOOLEAN :
    LET trimmed == trim(localSearch)
        next == setSearchQuery(products, trimmed)
    IN /\ Rendering
       /\ route.path # "none"
       /\ IF route.path # "/"
          THEN /\ EnterHome(next, strict, "setSearchQuery")
               /\ ChangePage(TRUE, trimmed)
          ELSE /\ products' = next
               /\ RunSelector(cart, next, FALSE)
               /\ localSearch' = syncLocalSearch(localSearch, products.searchQuery, trimmed)
               /\ debounce' = useDebounceEffect(debounce, TRUE,
                                                products.searchQuery, trimmed)
               /\ last' = Last("setSearchQuery", NoPayload, 0)
               /\ UNCHANGED <<fetchVars, checkout, orders>>
       /\ UNCHANGED <<cart, redirects, toastVars>>

\* the timer of useDebounce fires: setDebouncedValue(value)
DebounceFires ==
  /\ route.path = "/"
  /\ debounce.pending
  /\ debounce' = [value |-> products.searchQuery, pending |-> FALSE]
  /\ last' = Last("debounce", NoPayload, 0)
  /\ UNCHANGED <<cart, products, view, memo, fetchVars, checkoutVars,
                 localSearch, toastVars>>

NextSearch ==
  \/ NavigateHome
  \/ NavigateCart
  \/ ProductsResponse
  \/ ProductsBody
  \/ TypeSearch
  \/ SubmitSearch
  \/ DebounceFires

SpecSearch == Init /\ [][NextSearch]_vars

\* a step of use-toast.js leaves the store and the pages alone
ToastStep(op, id, pending) ==
  /\ last' = Last(op, [NoPayload EXCEPT !.id = id], pending)
  /\ UNCHANGED <<cart, products, view, memo, fetchVars, checkoutVars, searchVars>>

\* toast(props): genId and ADD_TOAST
Toast ==
  \E title \in ToastTitles :
    /\ count < MaxToasts
    /\ count' = genId(count)
    /\ toasts' = reducerAddToast(toasts, [id |-> count', title |-> title, open |-> TRUE])
    /\ ToastStep("ADD_TOAST", count', 0)
    /\ UNCHANGED <<toastTimeouts, timers>>

\* update(props) of a toast that was created
UpdateToast ==
  \E id \in 1..count, props \in ToastProps :
    /\ toasts' = reducerUpdateToast(toasts, id, props)
    /\ ToastStep("UPDATE_TOAST", id, 0)
    /\ UNCHANGED <<toastTimeouts, timers, count>>

\* dismiss() of a toast that was created, its onOpenChange(false), or
\* dismiss(toastId) of useToast, also without a toastId
DismissToast ==
  \E toastId \in 0..count :
    LET queue == dismissQueue([timeouts |-> toastTimeouts, timers |-> timers],
                              toasts, toastId)
    IN /\ toastTimeouts' = queue.timeouts
       /\ timers' = queue.timers
       /\ toasts' = reducerDismissToast(toasts, toastId)
       /\ ToastStep("DISMISS_TOAST", toastId,
                    IF toastId = NoToastId THEN 0 ELSE timers[toastId])
       /\ UNCHANGED count

\* a timer of addToRemoveQueue fires: toastTimeouts.delete and REMOVE_TOAST
RemoveTimerFires ==
  \E toastId \in ToastIds :
    /\ timers[toastId] > 0
    /\ timers' = [timers EXCEPT ![toastId] = @ - 1]
    /\ toastTimeouts' = toastTimeouts \ {toastId}
    /\ toasts' = reducerRemoveToast(toasts, toastId)
    /\ ToastStep("REMOVE_TOAST", toastId, 0)
    /\ UNCHANGED count

NextToast ==
  \/ Toast
  \/ UpdateToast
  \/ DismissToast
  \/ RemoveTimerFires

SpecToast == Init /\ [][NextToast]_vars

----------------------------------------------------------------------------
(* Properties of the cart slice *)

\* sum over the positions of the list of price * quantity
RECURSIVE SumPriceQty(_, _)
SumPriceQty(items, n) ==
  IF n = 0 THEN 0
  ELSE SumPriceQty(items, n - 1) + items[n].price * items[n].quantity

HasId(items, id) == \E i \in 1..Len(items) : items[i].id = id

\* C1: in every reachable cart state, after every single dispatch, cart.total
\* is the sum over the cart items of price * quantity.
C1_TotalIsSum == cart.total = SumPriceQty(cart.items, Len(cart.items))

C1_Witness ==
  /\ last.op = "updateQuantity"
  /\ last.quantity = 3
  /\ Len(cart.items) = 2
  /\ cart.items[1].quantity = 3
  /\ cart.items[1].price = 20
  /\ cart.items[2].price = 0 - 5
  /\ cart.total = 55

\* C2: no two cart items share an id; and addToCart applied twice for an id the
\* cart does not hold leaves exactly one item for that id, with quantity 2.
C2_UniqueIds ==
  /\ \A i, j \in 1..Len(cart.items) :
       cart.items[i].id = cart.items[j].id => i = j
  /\ \A p, q \in Payloads :
       (p.id = q.id /\ ~HasId(cart.items, p.id)) =>
         LET twice == addToCart(addToCart(cart, p), q).items
             held == {i \in 1..Len(twice) : twice[i].id = p.id}
         IN /\ Cardinality(held) = 1
            /\ \A i \in held : twice[i].quantity = 2

C2_Witness ==
  /\ last.op = "addToCart"
  /\ last.before = 2
  /\ Len(cart.items) = 2
  /\ \E i \in 1..2 : cart.items[i].id = last.payload.id /\ cart.items[i].quantity = 2

\* C3: every cart item has quantity >= 1 in every reachable state, also after
\* updateQuantity with quantity 0 or negative.
C3_QuantityAtLeastOne ==
  \A i \in 1..Len(cart.items) : cart.items[i].quantity >= 1

C3_Witness ==
  /\ last.op = "updateQuantity"
  /\ last.quantity = 0
  /\ HasId(cart.items, last.payload.id)

\* C4: a dispatch of updateQuantity with quantity < 1 leaves the cart (items
\* and total) as it was: nothing removed, nothing clamped.
C4_InvalidQuantityIsNoOp ==
  [][(last'.op = "updateQuantity" /\ last'.quantity < 1) => cart' = cart]_vars

\* add id 1 at price 20 twice, then updateQuantity(1, 0)
C4_Witness ==
  /\ last.op = "updateQuantity"
  /\ last.quantity = 0
  /\ last.payload.id = 1
  /\ Len(cart.items) = 1
  /\ cart.items[1].id = 1
  /\ cart.items[1].price = 20
  /\ cart.items[1].quantity = 2
  /\ cart.total = 40

\* C5: a dispatch of addToCart for an id the cart holds raises that item's
\* quantity by exactly 1 and changes nothing else (its other fields, its
\* position, the other items); for an id the cart does not hold it appends
\* the product with quantity 1 at the end.
C5_AddToCartEffect ==
  [][last'.op = "addToCart" =>
       LET p == last'.payload
           old == cart.items
           new == cart'.items
       IN IF HasId(old, p.id)
          THEN /\ Len(new) = Len(old)
               /\ \A i \in 1..Len(old) :
                    /\ new[i].id = old[i].id
                    /\ new[i].title = old[i].title
                    /\ new[i].price = old[i].price
                    /\ new[i].image = old[i].image
                    /\ new[i].quantity =
                         IF old[i].id = p.id THEN old[i].quantity + 1
                         ELSE old[i].quantity
          ELSE /\ Len(new) = Len(old) + 1
               /\ \A i \in 1..Len(old) : new[i] = old[i]
               /\ new[Len(new)] =
                    [id |-> p.id, title |-> p.title, price |-> p.price,
                     image |-> p.image, quantity |-> 1]]_vars

\* the payload names an item held at position 1 under another title and price
C5_Witness ==
  /\ last.op = "addToCart"
  /\ last.before = 2
  /\ Len(cart.items) = 2
  /\ cart.items[1].id = last.payload.id
  /\ cart.items[1].title # last.payload.title
  /\ cart.items[1].price # last.payload.price
  /\ cart.items[1].quantity = 2

\* C6: a dispatch of updateQuantity(id, q) with q >= 1 sets the quantity of the
\* item with that id to q and leaves the other items and the order unchanged;
\* when no item has that id the list is unchanged.
C6_UpdateQuantityEffect ==
  [][(last'.op = "updateQuantity" /\ last'.quantity >= 1) =>
       LET id == last'.payload.id
           old == cart.items
           new == cart'.items
       IN /\ Len(new) = Len(old)
          /\ \A i \in 1..Len(old) :
               IF old[i].id = id
               THEN new[i] = [old[i] EXCEPT !.quantity = last'.quantity]
               ELSE new[i] = old[i]]_vars

C6_Witness ==
  /\ last.op = "updateQuantity"
  /\ last.quantity = 3
  /\ Len(cart.items) = 2
  /\ cart.items[2].id = last.payload.id
  /\ cart.items[2].quantity = 3
  /\ cart.items[1].quantity = 2

\* C7: a dispatch of removeFromCart(id) removes exactly the item with that id
\* and keeps the others with their quantities and order; for an id the cart
\* does not hold, items and total are unchanged.
C7_RemoveFromCartEffect ==
  [][last'.op = "removeFromCart" =>
       LET id == last'.payload.id
       IN /\ cart'.items = SelectSeq(cart.items, LAMBDA item : item.id # id)
          /\ ~HasId(cart.items, id) => cart' = cart]_vars

\* the second of two items was removed, the first is left
C7_Witness ==
  /\ last.op = "removeFromCart"
  /\ last.before = 2
  /\ Len(cart.items) = 1
  /\ cart.items[1].id # last.payload.id
  /\ cart.items[1].id = 1
  /\ cart.items[1].quantity = 2

\* C8: after a dispatch of clearCart the cart is the empty cart.
C8_ClearCartEmpties ==
  last.op = "clearCart" => (cart.items = <<>> /\ cart.total = 0)

C8_Witness ==
  /\ last.op = "clearCart"
  /\ last.before = 2
  /\ cart.items = <<>>
  /\ cart.total = 0

----------------------------------------------------------------------------
(* Properties of the visible product list *)

WellFormed(product) ==
  /\ IsString(product.title)
  /\ IsString(product.description)
  /\ IsString(product.category)
  /\ IsString(product.brand)

\* the lower-cased search text is a substring of one of the four lower-cased
\* fields, a field that is not a string counting as the empty string
AnyFieldIncludes(product, searchText) ==
  \E field \in {product.title, product.description, product.category, product.brand} :
    /\ IsString(field)
    /\ includes(toLowerCase(field), toLowerCase(searchText))

ElementsOf(seq) == {seq[i] : i \in 1..Len(seq)}

\* C9: with a non-empty search text (and no category selected) the list
\* delivered by selectFilteredProducts holds exactly the products of which
\* the title, the description, the category or the brand includes the search
\* text, case-insensitively.  Stated for collections of well-formed records.
C9_SearchCoversFourFields ==
  ( /\ products.searchQuery # <<>>
    /\ products.selectedCategory = <<>>
    /\ \A product \in ElementsOf(products.products) : WellFormed(product) )
  => /\ view.ok
     /\ ElementsOf(view.value) =
          {product \in ElementsOf(products.products) :
             AnyFieldIncludes(product, products.searchQuery)}

\* C10: a record with a field that is missing or not a string never aborts
\* the filtering: under a search text selectFilteredProducts returns a list
\* (the field counting as the empty string), and the well-formed records that
\* match the search text and the category are in it.
C10_MalformedRecordNeverAborts ==
  ( /\ products.searchQuery # <<>>
    /\ \E product \in ElementsOf(products.products) : ~WellFormed(product) )
  => /\ view.ok
     /\ \A product \in ElementsOf(products.products) :
          ( /\ WellFormed(product)
            /\ AnyFieldIncludes(product, products.searchQuery)
            /\ products.selectedCategory \in {<<>>, All, product.category} )
          => product \in ElementsOf(view.value)

\* position of a product in state.products.products
PositionOf(product) ==
  CHOOSE i \in 1..Len(products.products) : products.products[i] = product

\* C11: a selected category of "" or "all" excludes no product from the
\* visible list; any other value keeps exactly the products whose category
\* equals it, case-sensitively.
C11_CategoryFilter ==
  view.ok =>
    /\ \A product \in ElementsOf(view.value) :
         \/ products.selectedCategory \in {<<>>, All}
         \/ product.category = products.selectedCategory
    /\ products.searchQuery = <<>> =>
         \A product \in ElementsOf(products.products) :
           ( \/ products.selectedCategory \in {<<>>, All}
             \/ product.category = products.selectedCategory )
           => product \in ElementsOf(view.value)

C11_Witness ==
  /\ last.op = "setSelectedCategory"
  /\ products.selectedCategory = All
  /\ products.searchQuery = <<>>
  /\ products.products = <<RedShoe, BlueHat>>
  /\ view.ok
  /\ ElementsOf(view.value) = {RedShoe, BlueHat}

\* C12: the visible list is ordered by the sort key: price-asc by
\* non-decreasing price, price-desc by non-increasing price, rating by
\* non-increasing rating, name and any other key by ascending title; products
\* that tie on the key are in the order they have in state.products.products.
SortedPair(a, b) ==
  LET inOrder == PositionOf(a) < PositionOf(b)
  IN CASE products.sortBy = "price-asc" ->
            a.price < b.price \/ (a.price = b.price /\ inOrder)
       [] products.sortBy = "price-desc" ->
            a.price > b.price \/ (a.price = b.price /\ inOrder)
       [] products.sortBy = "rating" ->
            a.rating > b.rating \/ (a.rating = b.rating /\ inOrder)
       [] OTHER ->
            (IsString(a.title) /\ IsString(b.title)) =>
              \/ localeCompare(a.title, b.title) < 0
              \/ (localeCompare(a.title, b.title) = 0 /\ inOrder)

C12_SortedByKey ==
  view.ok =>
    \A i, j \in 1..Len(view.value) :
      i < j => SortedPair(view.value[i], view.value[j])

C12_Witness ==
  /\ last.op = "setSortBy"
  /\ products.sortBy = "price-asc"
  /\ products.products = <<RedShoe, BlueHat>>
  /\ view.ok
  /\ view.value = <<BlueHat, RedShoe>>

C14_NeverStale ==
  view = selectFilteredProducts([cart |-> cart, products |-> products])

C14_Witness ==
  /\ last.op = "setSortBy"
  /\ products.sortBy = "price-desc"
  /\ products.products = <<RedShoe, BlueHat>>
  /\ memo.recomputed
  /\ view.ok
  /\ view.value = <<RedShoe, BlueHat>>

\* C15: setProducts(P) replaces products with P, sets loading to false and
\* error to null and leaves searchQuery, selectedCategory and sortBy as they
\* were; the visible list after it is the derivation of P under the filter
\* and sort parameters set before the load.
C15_LoadKeepsFilters ==
  /\ [](\A P \in Collections :
          LET next == setProducts(products, P)
          IN /\ next.products = P
             /\ next.loading = FALSE
             /\ next.error = Null
             /\ next.searchQuery = products.searchQuery
             /\ next.selectedCategory = products.selectedCategory
             /\ next.sortBy = products.sortBy)
  /\ [][last'.op = "setProducts" =>
          view' = selectFilteredProducts(
                    [cart |-> cart,
                     products |-> [products EXCEPT !.products = products'.products]])]_vars

\* the search text was set before the load
C15_Witness ==
  /\ last.op = "setProducts"
  /\ products.searchQuery = <<"s", "h", "o", "e">>
  /\ products.selectedCategory = All
  /\ products.sortBy = "rating"
  /\ products.products = <<BlueHat, RedShoe>>
  /\ ~products.loading
  /\ products.error = Null
  /\ view.ok
  /\ view.value = <<RedShoe>>

\* C16: categories holds exactly the distinct category values of the current
\* products, each once, and only setProducts changes it.
C16_CategoriesOfProducts ==
  /\ [](/\ ElementsOf(products.categories) =
             {product.category : product \in ElementsOf(products.products)}
        /\ \A i, j \in 1..Len(products.categories) :
             products.categories[i] = products.categories[j] => i = j)
  /\ [][last'.op # "setProducts" => products'.categories = products.categories]_vars

\* two products of one category, and a filter intent after the load
C16_Witness ==
  /\ last.op = "setSelectedCategory"
  /\ products.products = <<BlueHat, Untitled>>
  /\ products.categories = << <<"h", "a", "t", "s">> >>

\* C17: after setLoading(true) loading is true and error is null, whatever the
\* state before.
C17_BeginLoadClearsError ==
  (last.op = "setLoading" /\ products.loading) => products.error = Null

\* C18: setError(message) sets error to the message and loading to false and
\* leaves products, categories, searchQuery, selectedCategory, sortBy and the
\* visible list as they were.
C18_SetErrorEffect ==
  [][last'.op = "setError" =>
       /\ products'.error \in ErrorMessages
       /\ products'.loading = FALSE
       /\ products'.products = products.products
       /\ products'.categories = products.categories
       /\ products'.searchQuery = products.searchQuery
       /\ products'.selectedCategory = products.selectedCategory
       /\ products'.sortBy = products.sortBy
       /\ products'.filteredProducts = products.filteredProducts
       /\ view' = view]_vars

C18_Witness ==
  /\ last.op = "setError"
  /\ products.error = "Failed to fetch products"
  /\ ~products.loading
  /\ products.products = <<RedShoe, BlueHat>>
  /\ products.searchQuery = <<"s", "h", "o", "e">>
  /\ view.ok
  /\ view.value = <<RedShoe>>

-----------------------------------------------------------------------------
(* Properties of the fetch handlers *)

\* the step settles the fetch f: its slot is free afterwards
Settled(f) == \A g \in fetches' : g.n # f.n

\* the state of the products slice after a failed load
FailedLoad(r, before) ==
  /\ r.type = "setError"
  /\ r.state.error # Null
  /\ r.state.loading = FALSE
  /\ r.state.products = before.products

\* C19: every failure of a catalog fetch whose view is still mounted (the
\* transport fails, the response is not OK, the body has no usable products
\* collection) ends with error set to a message, loading false and products
\* unchanged; the handler catches every exception and the visible list stays
\* readable.
C19_FailedFetchIsRecorded ==
  /\ [](/\ \A message \in {NetworkMessage, StatusMessage} :
             FailedLoad(fetchProductsCatch(products, FALSE, message), products)
        /\ \A body \in FailedBodies :
             FailedLoad(fetchProductsThen(products, FALSE, body), products))
  /\ [][\A f \in fetches :
          (f.kind = "products" /\ ~f.aborted /\ Settled(f)
             /\ last'.op # "setProducts")
          => /\ last'.op = "setError"
             /\ products'.error # Null
             /\ products'.loading = FALSE
             /\ products'.products = products.products
             /\ view' = view
             /\ view'.ok]_vars

\* the body of the response had no products and ProductList is mounted
C19_Witness ==
  /\ last.op = "setError"
  /\ route.path = "/"
  /\ products.error = MapMessage
  /\ ~products.loading
  /\ products.products = <<>>
  /\ view.ok

\* C20: when the response or the rejection of an aborted catalog fetch
\* arrives, nothing is dispatched and the store is as before, whatever the
\* order of abort, arrival and a newer fetch; the same holds for the local
\* state of ProductDetail and an aborted product fetch.
C20_AbortedFetchIsDiscarded ==
  [][\A f \in fetches :
       (f.aborted /\ Settled(f))
       => /\ last'.op = "discarded"
          /\ UNCHANGED <<cart, products, view, memo, detail>>]_vars

\* the rejection of an aborted catalog fetch arrived while the fetch that
\* replaced it is in flight
C20_Witness ==
  /\ last.op = "discarded"
  /\ last.payload.title = "products"
  /\ route.path = "/"
  /\ products.loading
  /\ products.error = Null
  /\ \E g \in fetches : g.kind = "products" /\ ~g.aborted

-----------------------------------------------------------------------------
(* The list of the reducer and the list of the selector *)

\* C24: in every state reached by catalog intents the list that applyFilters
\* stored in filteredProducts is the list selectFilteredProducts returns for
\* that state, with the same products in the same order.
\* (stated for collections of well-formed records)
C24_StoredListIsDerivedList ==
  (\A i \in 1..Len(products.products) : WellFormed(products.products[i]))
  => Returned(products.filteredProducts) =
       selectFilteredProducts([cart |-> cart, products |-> products])

\* C28: setSearchQuery, setSelectedCategory and setSortBy, and the derivation
\* of the visible list that follows every dispatch, leave products and the
\* order of its elements as they were; only setProducts changes products, and
\* it replaces it by its payload.
C28_ProductsOnlyByLoad ==
  /\ [][last'.op # "setProducts" => products'.products = products.products]_vars
  /\ [](\A P \in Collections : setProducts(products, P).products = P)
  /\ [](LET shown == applyFilters(products)
        IN /\ shown.products = products.products
           /\ setSearchQuery(products, <<"s", "h", "o", "e">>).products = products.products
           /\ setSortBy(products, "price-asc").products = products.products)

\* a sort intent reordered the visible list and not the products
C28_Witness ==
  /\ last.op = "setSortBy"
  /\ products.sortBy = "price-asc"
  /\ products.products = <<RedShoe, BlueHat>>
  /\ products.filteredProducts = <<BlueHat, RedShoe>>
  /\ view.ok
  /\ view.value = <<BlueHat, RedShoe>>

-----------------------------------------------------------------------------
(* Properties of a session *)

\* the fetches of the catalog that are in flight, by their slots
CatalogFetches(fs) == {f.n : f \in {g \in fs : g.kind = "products"}}

\* C21: once the store holds a non-empty collection, no step starts a
\* catalog fetch and no step replaces products, whatever mounts, unmounts,
\* filter intents and cart intents follow.
C21_LoadedOnce ==
  [][Len(products.products) > 0
       => /\ products'.products = products.products
          /\ CatalogFetches(fetches') \subseteq CatalogFetches(fetches)]_vars

\* after the load and a sort intent the home page was left and mounted again
C21_Witness ==
  /\ last.op = "navigate"
  /\ route.path = "/"
  /\ products.products = <<RedShoe, BlueHat>>
  /\ products.sortBy = "price-asc"
  /\ fetches = {}

\* C26: loading is true only while a catalog fetch whose signal is not
\* aborted is in flight.
C26_LoadingOnlyWhileFetching ==
  products.loading => \E f \in fetches : f.kind = "products" /\ ~f.aborted

\* C27: once the fetch for the current productId has succeeded, ProductDetail
\* shows that product: loading false, error null, product the fetched record.
C27_ProductShownAfterSuccess ==
  last.op = "detail:setProduct"
  => /\ detail.product = route.productId
     /\ detail.loading = FALSE
     /\ detail.error = Null

-----------------------------------------------------------------------------
(* Properties of the checkout *)

\* the step is the confirmation of the oldest pending order
Confirms == orders # <<>> /\ orders' = Tail(orders) /\ redirects' = redirects + 1

\* C22: a submit whose validation fails dispatches nothing and leaves the
\* cart as it was; the cart is cleared by the checkout only when the payment
\* timer of a submit that passed validation fires, and that step sets
\* orderPlaced to true and leaves items = [] and total = 0.
C22_ClearedOnOrderPlaced ==
  /\ [][last'.op = "invalid"
          => UNCHANGED <<cart, products, view, memo, checkout, orders, redirects>>]_vars
  /\ [][(last'.op = "clearCart" /\ last'.payload.title = "checkout") => Confirms]_vars
  /\ [][Confirms => /\ cart'.items = <<>>
                    /\ cart'.total = 0
                    /\ checkout'.orderPlaced]_vars

\* C25: between a submit that passed validation and its confirmation the
\* cart does not change: the items cleared at the confirmation are the items
\* present at the submit, and no order is confirmed for an empty cart.
C25_CartFrozenWhileProcessing ==
  [][Confirms => /\ cart.items = Head(orders).items
                 /\ cart.items # <<>>]_vars

-----------------------------------------------------------------------------
(* Properties of the search input *)

\* C23: the store receives a settled search text only: its searchQuery
\* changes in no step but the one in which the timer that coalesces the
\* input fires, and so not once per change of the input.
C23_StoreGetsSettledText ==
  [][products'.searchQuery # products.searchQuery
       => /\ debounce.pending
          /\ ~debounce'.pending
          /\ localSearch' = localSearch]_vars

-----------------------------------------------------------------------------
(* Properties of the toasts *)

\* C29: the toast list holds at most TOAST_LIMIT = 1 toast in every state,
\* and after ADD_TOAST the toast held is the one just added.
C29_NewestToastOnly ==
  /\ Len(toasts) <= TOAST_LIMIT
  /\ TOAST_LIMIT = 1
  /\ last.op = "ADD_TOAST"
     => /\ Len(toasts) = 1
        /\ toasts[1].id = last.payload.id
        /\ toasts[1].open

\* the second toast evicted the first
C29_Witness ==
  /\ last.op = "ADD_TOAST"
  /\ last.payload.id = 2
  /\ toasts = << [id |-> 2, title |-> "Updated", open |-> TRUE] >>

\* C30: DISMISS_TOAST for an id closes that toast, keeps it in the list and
\* has a removal timer pending for the id; an id never has more than one
\* pending timer, and it has one exactly when it is a key of toastTimeouts;
\* the step in which the timer fires deletes the key and leaves no toast of
\* that id in the list.
C30_DismissThenRemove ==
  /\ [][(last'.op = "DISMISS_TOAST" /\ last'.payload.id # NoToastId)
          => /\ Len(toasts') = Len(toasts)
             /\ \A i \in 1..Len(toasts) :
                  /\ toasts'[i].id = toasts[i].id
                  /\ toasts[i].id = last'.payload.id => ~toasts'[i].open
             /\ last'.payload.id \in toastTimeouts'
             /\ timers'[last'.payload.id] = 1]_vars
  /\ [](\A id \in ToastIds :
          /\ timers[id] <= 1
          /\ timers[id] = 1 <=> id \in toastTimeouts)
  /\ [][\A id \in ToastIds :
          timers'[id] < timers[id]
          => /\ id \notin toastTimeouts'
             /\ timers'[id] = 0
             /\ \A i \in 1..Len(toasts') : toasts'[i].id # id]_vars

\* a toast that is in the list was dismissed a second time
C30_Witness ==
  /\ last.op = "DISMISS_TOAST"
  /\ last.payload.id = 1
  /\ last.quantity = 1
  /\ Len(toasts) = 1
  /\ toasts[1].id = 1
  /\ ~toasts[1].open
  /\ timers[1] = 1
  /\ toastTimeouts = {1}

====
